---- MODULE Spec2Model ----
(***************************************************************************)
(* stactools.core.io: the facades read_text / write_text, the fsspec-backed *)
(* strategy FsspecStacIO and the installer use_fsspec, over an opaque       *)
(* storage backend (fsspec.open) and pystac's process-wide default StacIO.  *)
(***************************************************************************)
EXTENDS Integers, Sequences, FiniteSets, TLC

VARIABLES
    default_io,    \* the class StacIO.default() instantiates (StacIO._default_io)
    store,         \* backend content: what f.read() yields for each href
    open_handles,  \* handles opened through the backend and not yet closed
    notices,       \* number of deprecation notices emitted so far
    last,          \* observation of the most recent completed call (Spec)
    calls          \* per-thread in-flight facade call (SpecConc)

vars == <<default_io, store, open_handles, notices, last, calls>>

(* ------------------------------ bounds -------------------------------- *)
MaxLen == 1        \* longest text a caller writes
MaxNotices == 2    \* notices kept in the log
MaxThreads == 2    \* caller threads of the interleaved specification

(* ------------------------------ values -------------------------------- *)
Hrefs == {"a", "b"}
OptionNames == {"compression"}
Options == SUBSET OptionNames        \* **kwargs, as the set of keywords passed
NoOptions == {}
Threads == 1..MaxThreads

\* The texts callers write: the prefixes of U+00E9, A, U+00E9, A, ...
\* (U+00E9 takes two UTF-8 bytes, A one).
Sample(k) == [i \in 1..k |-> IF i % 2 = 1 THEN 233 ELSE 65]
Texts == {Sample(k) : k \in 0..MaxLen}

Str(t) == [kind |-> "str", val |-> t]
Bytes(b) == [kind |-> "bytes", val |-> b]
Other == [kind |-> "other", val |-> <<>>]      \* e.g. an integer
Missing == [kind |-> "missing", val |-> <<>>]  \* no resource at the href
None == [kind |-> "none", val |-> <<>>]

(* --------------------------- UTF-8 (1-2 bytes) ------------------------- *)
\* Code points below U+0800; bytes 224..244 (longer forms) are outside the
\* byte alphabet of the model.
Utf8EncodeCp(cp) ==
    IF cp < 128 THEN <<cp>>
    ELSE <<192 + (cp \div 64), 128 + (cp % 64)>>

RECURSIVE Utf8Encode(_)
Utf8Encode(t) ==
    IF t = <<>> THEN <<>> ELSE Utf8EncodeCp(Head(t)) \o Utf8Encode(Tail(t))

IsCont(b) == b >= 128 /\ b <= 191

\* Decoding either yields [ok |-> TRUE, val |-> text] or [ok |-> FALSE, val |-> <<>>].
RECURSIVE Utf8Decode(_)
Utf8Decode(b) ==
    IF b = <<>> THEN [ok |-> TRUE, val |-> <<>>]
    ELSE IF Head(b) < 128 THEN
        LET r == Utf8Decode(Tail(b))
        IN  IF r.ok THEN [ok |-> TRUE, val |-> <<Head(b)>> \o r.val] ELSE r
    ELSE IF Head(b) >= 194 /\ Head(b) <= 223 /\ Len(b) >= 2 /\ IsCont(b[2]) THEN
        LET r == Utf8Decode(Tail(Tail(b)))
            cp == (Head(b) - 192) * 64 + (b[2] - 128)
        IN  IF r.ok THEN [ok |-> TRUE, val |-> <<cp>> \o r.val] ELSE r
    ELSE [ok |-> FALSE, val |-> <<>>]

\* What the backend may hold before any call: href "a" is served by a backend
\* whose read yields str (or a non-text object), href "b" by one whose read
\* yields bytes, valid UTF-8 or not.
InitPayloads(href) ==
    IF href = "a" THEN {Missing, Other, Str(<<65>>)}
    ELSE {Missing, Bytes(<<195>>), Bytes(<<195, 169, 65>>)}

(* ------------------------------ backend -------------------------------- *)
Faults == {"none", "open", "io"}   \* where the backend raises, if it does
\* What the backend of an href yields on read for content written as text.
ReprOf(href) == IF href = "a" THEN "str" ELSE "bytes"

fspath(href) == href               \* os.fspath of a str is that str

Stored(href, txt) == IF ReprOf(href) = "str" THEN Str(txt) ELSE Bytes(Utf8Encode(txt))

\* __exit__ of the with block: closes the handle whether or not the body raised.
WithExitLeaks(raised) == IF raised THEN 0 ELSE 1
WithExit(raised) == 1

Outcome(st, opens, closed, outcome, result, emitted) ==
    [store |-> st, opens |-> opens, closed |-> closed, outcome |-> outcome,
     result |-> result, emitted |-> emitted]

(* ------------------------ FsspecStacIO (strategy) ----------------------- *)
Classes == {"DefaultStacIO", "FsspecStacIO"}

\* The isinstance chain with its else branch left out: the method falls
\* through and returns None.
DecodeLoadedNoElse(s) ==
    IF s.kind = "str" THEN [outcome |-> "ok", result |-> Str(s.val)]
    ELSE IF s.kind = "bytes" THEN
        LET d == Utf8Decode(s.val)
        IN  IF d.ok THEN [outcome |-> "ok", result |-> Str(d.val)]
            ELSE [outcome |-> "DecodeError", result |-> None]
    ELSE [outcome |-> "ok", result |-> None]

\* The isinstance chain on the value f.read() yielded.
DecodeLoaded(s) ==
    IF s.kind = "str" THEN [outcome |-> "ok", result |-> Str(s.val)]
    ELSE IF s.kind = "bytes" THEN
        LET d == Utf8Decode(s.val)
        IN  IF d.ok THEN [outcome |-> "ok", result |-> Str(d.val)]
            ELSE [outcome |-> "DecodeError", result |-> None]   \* UnicodeDecodeError, a ValueError
    ELSE [outcome |-> "DecodeError", result |-> None]           \* ValueError

\* FsspecStacIO.read_text_from_href(href, **kwargs)
FsspecReadTextFromHref(st, href, kwargs, fault) ==
    LET h == fspath(href)
        opened == <<[href |-> h, mode |-> "r", options |-> kwargs]>>
    IN  IF fault = "open" \/ st[h] = Missing
        THEN Outcome(st, <<>>, 0, "BackendError", None, <<>>)
        ELSE IF fault = "io"
        THEN Outcome(st, opened, WithExit(TRUE), "BackendError", None, <<>>)
        ELSE LET d == DecodeLoaded(st[h])
             IN  Outcome(st, opened, WithExit(d.outcome # "ok"), d.outcome, d.result, <<>>)

\* FsspecStacIO.write_text_to_href(href, txt, **kwargs); on a fault mid-write
\* the backend keeps the first `cut` characters.
FsspecWriteTextToHref(st, href, txt, kwargs, fault, cut) ==
    LET h == fspath(href)
        opened == <<[href |-> h, mode |-> "w", options |-> kwargs]>>
    IN  IF fault = "open"
        THEN Outcome(st, <<>>, 0, "BackendError", None, <<>>)
        ELSE IF fault = "io"
        THEN Outcome([st EXCEPT ![h] = Stored(h, SubSeq(txt, 1, cut))],
                     opened, WithExit(TRUE), "BackendError", None, <<>>)
        ELSE Outcome([st EXCEPT ![h] = Stored(h, txt)],
                     opened, WithExit(FALSE), "ok", None, <<>>)

\* utils.deprecate(from, to, version): one DeprecationWarning per invocation.
Deprecate(from, to, version) == <<[from |-> from, to |-> to, version |-> version]>>
AliasNotice ==
    Deprecate("FsspecStacIO.write_text_from_href", "FsspecStacIO.write_text_to_href", "v0.5.0")

\* FsspecStacIO.write_text_from_href(href, txt, **kwargs): the deprecated alias.
FsspecWriteTextFromHrefDropsOptions(st, href, txt, kwargs, fault, cut) ==
    LET r == FsspecWriteTextToHref(st, href, txt, NoOptions, fault, cut)
    IN  [r EXCEPT !.emitted = AliasNotice \o r.emitted]
FsspecWriteTextFromHref(st, href, txt, kwargs, fault, cut) ==
    LET r == FsspecWriteTextToHref(st, href, txt, kwargs, fault, cut)
    IN  [r EXCEPT !.emitted = AliasNotice \o r.emitted]

(* ----------------------- DefaultStacIO (pystac) ------------------------- *)
\* The initial default strategy: the capability set
\* {read_text_from_href, write_text_to_href} over plain files.
DefaultReadTextFromHref(st, href, kwargs, fault) ==
    IF fault = "open" \/ st[href] = Missing
    THEN Outcome(st, <<>>, 0, "BackendError", None, <<>>)
    ELSE IF fault = "io"
    THEN Outcome(st, <<[href |-> href, mode |-> "r", options |-> kwargs]>>, 1,
                 "BackendError", None, <<>>)
    ELSE LET d == DecodeLoaded(st[href])
         IN  Outcome(st, <<[href |-> href, mode |-> "r", options |-> kwargs]>>, 1,
                     d.outcome, d.result, <<>>)

DefaultWriteTextToHref(st, href, txt, kwargs, fault, cut) ==
    IF fault = "open"
    THEN Outcome(st, <<>>, 0, "BackendError", None, <<>>)
    ELSE IF fault = "io"
    THEN Outcome([st EXCEPT ![href] = Stored(href, SubSeq(txt, 1, cut))],
                 <<[href |-> href, mode |-> "w", options |-> kwargs]>>, 1,
                 "BackendError", None, <<>>)
    ELSE Outcome([st EXCEPT ![href] = Stored(href, txt)],
                 <<[href |-> href, mode |-> "w", options |-> kwargs]>>, 1, "ok", None, <<>>)

\* Attributes a strategy instance answers to: FsspecStacIO subclasses
\* DefaultStacIO and adds the alias.
Methods(cls) ==
    IF cls = "FsspecStacIO"
    THEN {"read_text_from_href", "write_text_to_href", "write_text_from_href"}
    ELSE {"read_text_from_href", "write_text_to_href"}

\* instance.method(href[, txt], **kwargs) on an instance of cls.
Invoke(cls, method, st, href, txt, kwargs, fault, cut) ==
    IF method \notin Methods(cls)
    THEN Outcome(st, <<>>, 0, "AttributeError", None, <<>>)
    ELSE IF method = "read_text_from_href"
    THEN IF cls = "FsspecStacIO"
         THEN FsspecReadTextFromHref(st, href, kwargs, fault)
         ELSE DefaultReadTextFromHref(st, href, kwargs, fault)
    ELSE IF method = "write_text_to_href"
    THEN IF cls = "FsspecStacIO"
         THEN FsspecWriteTextToHref(st, href, txt, kwargs, fault, cut)
         ELSE DefaultWriteTextToHref(st, href, txt, kwargs, fault, cut)
    ELSE FsspecWriteTextFromHref(st, href, txt, kwargs, fault, cut)

(* --------------------------- href modifiers ----------------------------- *)
Raises == "<raises>"
Modifiers == {"sign", "fail"}
NoModifier == "none"
\* "sign" maps each href to the other one; "fail" raises.
Modify(m, href) ==
    IF m = "sign" THEN (IF href = "a" THEN "b" ELSE "a") ELSE Raises

(* ------------------------------ facades --------------------------------- *)
SCall(cls, method, href, txt, kwargs) ==
    [strategy |-> cls, method |-> method, href |-> href, txt |-> txt, options |-> kwargs]

\* The href read_text hands to the strategy.
ReadHrefUnmodified(m, href) == href
ReadHref(m, href) == IF m = NoModifier THEN href ELSE Modify(m, href)

\* The keyword arguments read_text hands to the strategy.
ReadOptionsAlwaysForwarded(m, kwargs) == kwargs
ReadOptions(m, kwargs) == IF m = NoModifier THEN kwargs ELSE NoOptions

\* read_text(href, read_href_modifier, **kwargs) with dflt the class
\* StacIO.default() instantiates.
read_text(dflt, st, href, m, kwargs, fault) ==
    IF ReadHref(m, href) = Raises
    THEN [mod_calls |-> <<href>>, scalls |-> <<>>,
          r |-> Outcome(st, <<>>, 0, "ModifierError", None, <<>>)]
    ELSE [mod_calls |-> IF m = NoModifier THEN <<>> ELSE <<href>>,
          scalls |-> <<SCall(dflt, "read_text_from_href", ReadHref(m, href), <<>>,
                             ReadOptions(m, kwargs))>>,
          r |-> Invoke(dflt, "read_text_from_href", st, ReadHref(m, href), <<>>,
                       ReadOptions(m, kwargs), fault, 0)]

\* The strategy attribute write_text calls.
WriteTextMethod == "write_text_from_href"

\* write_text(href, txt, **kwargs)
write_text(dflt, st, href, txt, kwargs, fault, cut) ==
    [mod_calls |-> <<>>,
     scalls |-> <<SCall(dflt, WriteTextMethod, href, txt, kwargs)>>,
     r |-> Invoke(dflt, WriteTextMethod, st, href, txt, kwargs, fault, cut)]

\* A caller's direct call of a strategy method on an instance of cls.
direct(cls, method, st, href, txt, kwargs, fault, cut) ==
    [mod_calls |-> <<>>,
     scalls |-> <<SCall(cls, method, href, txt, kwargs)>>,
     r |-> Invoke(cls, method, st, href, txt, kwargs, fault, cut)]

\* StacIO.set_default(FsspecStacIO)
SetDefaultToggles(current) == IF current = "FsspecStacIO" THEN "DefaultStacIO" ELSE "FsspecStacIO"
SetDefault(current) == "FsspecStacIO"

(* ------------------------------- state ---------------------------------- *)
Idle == [pc |-> "idle", op |-> "none", modifier |-> NoModifier, start_default |-> "none",
         captured |-> "none", dispatched |-> "none", target |-> "a", outcome |-> "none",
         result |-> None]

NoCall ==
    [op |-> "none", href |-> "a", txt |-> <<>>, modifier |-> NoModifier, options |-> NoOptions,
     fault |-> "none", default_before |-> "none", mod_calls |-> <<>>, scalls |-> <<>>,
     opens |-> <<>>, closed |-> 0, outcome |-> "none", result |-> None, emitted |-> <<>>]

Init ==
    /\ default_io = "DefaultStacIO"
    /\ store \in {s \in [Hrefs -> UNION {InitPayloads(h) : h \in Hrefs}] :
                    \A h \in Hrefs : s[h] \in InitPayloads(h)}
    /\ open_handles = 0
    /\ notices = 0
    /\ last = NoCall
    /\ calls = [t \in Threads |-> Idle]

\* What a completed call c of entry point op leaves in `last`.
Observed(op, href, txt, m, kwargs, fault, c) ==
    [op |-> op, href |-> href, txt |-> txt, modifier |-> m, options |-> kwargs,
     fault |-> fault, default_before |-> default_io, mod_calls |-> c.mod_calls,
     scalls |-> c.scalls, opens |-> c.r.opens, closed |-> c.r.closed,
     outcome |-> c.r.outcome, result |-> c.r.result, emitted |-> c.r.emitted]

Cuts(txt, fault) == IF fault = "io" THEN 0..Len(txt) ELSE {0}

ReadText ==
    \E href \in Hrefs, m \in {NoModifier} \cup Modifiers, kwargs \in Options, fault \in Faults :
        \E c \in {read_text(default_io, store, href, m, kwargs, fault)} :
            /\ store' = c.r.store
            /\ open_handles' = open_handles + Len(c.r.opens) - c.r.closed
            /\ last' = Observed("read_text", href, <<>>, m, kwargs, fault, c)
            /\ UNCHANGED <<default_io, notices, calls>>

WriteText ==
    \E href \in Hrefs, txt \in Texts, kwargs \in Options, fault \in Faults :
        \E cut \in Cuts(txt, fault) :
            \E c \in {write_text(default_io, store, href, txt, kwargs, fault, cut)} :
                /\ notices + Len(c.r.emitted) <= MaxNotices
                /\ store' = c.r.store
                /\ open_handles' = open_handles + Len(c.r.opens) - c.r.closed
                /\ notices' = notices + Len(c.r.emitted)
                /\ last' = Observed("write_text", href, txt, NoModifier, kwargs, fault, c)
                /\ UNCHANGED <<default_io, calls>>

StrategyRead ==
    \E href \in Hrefs, kwargs \in Options, fault \in Faults :
        \E c \in {direct("FsspecStacIO", "read_text_from_href", store, href, <<>>, kwargs, fault, 0)} :
            /\ store' = c.r.store
            /\ open_handles' = open_handles + Len(c.r.opens) - c.r.closed
            /\ last' = Observed("read_text_from_href", href, <<>>, NoModifier, kwargs, fault, c)
            /\ UNCHANGED <<default_io, notices, calls>>

StrategyWriteTo ==
    \E href \in Hrefs, txt \in Texts, kwargs \in Options, fault \in Faults :
        \E cut \in Cuts(txt, fault) :
            \E c \in {direct("FsspecStacIO", "write_text_to_href", store, href, txt, kwargs, fault, cut)} :
                /\ store' = c.r.store
                /\ open_handles' = open_handles + Len(c.r.opens) - c.r.closed
                /\ last' = Observed("write_text_to_href", href, txt, NoModifier, kwargs,
                                    fault, c)
                /\ UNCHANGED <<default_io, notices, calls>>

StrategyWriteFrom ==
    \E href \in Hrefs, txt \in Texts, kwargs \in Options, fault \in Faults :
        \E cut \in Cuts(txt, fault) :
            \E c \in {direct("FsspecStacIO", "write_text_from_href", store, href, txt, kwargs, fault, cut)} :
                /\ notices + Len(c.r.emitted) <= MaxNotices
                /\ store' = c.r.store
                /\ open_handles' = open_handles + Len(c.r.opens) - c.r.closed
                /\ notices' = notices + Len(c.r.emitted)
                /\ last' = Observed("write_text_from_href", href, txt, NoModifier, kwargs,
                                    fault, c)
                /\ UNCHANGED <<default_io, calls>>

\* use_fsspec()
UseFsspec ==
    /\ default_io' = SetDefault(default_io)
    /\ last' = [NoCall EXCEPT !.op = "use_fsspec", !.default_before = default_io,
                              !.outcome = "ok"]
    /\ UNCHANGED <<store, open_handles, notices, calls>>

Next ==
    \/ UseFsspec
    \/ ReadText
    \/ WriteText
    \/ StrategyRead
    \/ StrategyWriteTo
    \/ StrategyWriteFrom

Spec == Init /\ [][Next]_vars

(* ---------------- interleaved calls (threads, no lock) ------------------ *)
\* A facade call taken step by step, so that use_fsspec() of another thread
\* can fall between any two steps.  Calls address ConcHref and write ConcText.
ConcHref == "a"
ConcText == Sample(MaxLen)

InitConc ==
    /\ default_io = "DefaultStacIO"
    /\ store = [h \in Hrefs |-> IF h = "a" THEN Str(<<65>>) ELSE Bytes(<<195, 169, 65>>)]
    /\ open_handles = 0
    /\ notices = 0
    /\ last = NoCall
    /\ calls = [t \in Threads |-> Idle]

\* The instance whose attribute the call expression looks up: the value of
\* StacIO.default() evaluated at the start of the expression.
ReceiverRereadsDefault(c, dflt) == dflt
Receiver(c, dflt) == c.captured

MethodOf(op) == IF op = "read_text" THEN "read_text_from_href" ELSE WriteTextMethod

\* StacIO.default(): the call expression starts by instantiating the default class.
Begin(t) ==
    /\ calls[t].pc = "idle"
    /\ \E op \in {"read_text", "write_text"}, m \in {NoModifier} \cup Modifiers :
        /\ op = "write_text" => m = NoModifier
        /\ calls' = [calls EXCEPT ![t] = [Idle EXCEPT !.pc = "captured", !.op = op,
                        !.modifier = m, !.start_default = default_io,
                        !.captured = default_io]]
    /\ UNCHANGED <<default_io, store, open_handles, notices, last>>

\* .read_text_from_href / .write_text_from_href: attribute lookup on the instance.
Bind(t) ==
    /\ calls[t].pc = "captured"
    /\ LET cls == Receiver(calls[t], default_io)
       IN  calls' = [calls EXCEPT ![t] =
                IF MethodOf(calls[t].op) \in Methods(cls)
                THEN [@ EXCEPT !.pc = "bound", !.dispatched = cls]
                ELSE [@ EXCEPT !.pc = "done", !.dispatched = cls,
                               !.outcome = "AttributeError"]]
    /\ UNCHANGED <<default_io, store, open_handles, notices, last>>

\* Arguments are evaluated (the modifier runs), then the method is entered;
\* the alias starts with utils.deprecate.
Enter(t) ==
    /\ calls[t].pc = "bound"
    /\ LET c == calls[t]
           target == ReadHref(c.modifier, ConcHref)
           emitted == IF MethodOf(c.op) = "write_text_from_href" THEN AliasNotice ELSE <<>>
       IN  IF target = Raises
           THEN /\ calls' = [calls EXCEPT ![t] = [@ EXCEPT !.pc = "done",
                                                          !.outcome = "ModifierError"]]
                /\ UNCHANGED notices
           ELSE /\ notices + Len(emitted) <= MaxNotices
                /\ notices' = notices + Len(emitted)
                /\ calls' = [calls EXCEPT ![t] = [@ EXCEPT !.pc = "called",
                                                          !.target = target]]
    /\ UNCHANGED <<default_io, store, open_handles, last>>

\* fsspec.open(href, mode): mode "w" truncates, mode "r" needs the resource.
Open(t) ==
    /\ calls[t].pc = "called"
    /\ LET c == calls[t]
       IN  IF c.op = "read_text" /\ store[c.target] = Missing
           THEN /\ calls' = [calls EXCEPT ![t] = [@ EXCEPT !.pc = "done",
                                                          !.outcome = "BackendError"]]
                /\ UNCHANGED <<store, open_handles>>
           ELSE /\ calls' = [calls EXCEPT ![t] = [@ EXCEPT !.pc = "opened"]]
                /\ open_handles' = open_handles + 1
                /\ store' = IF c.op = "write_text"
                            THEN [store EXCEPT ![c.target] = Stored(c.target, <<>>)]
                            ELSE store
    /\ UNCHANGED <<default_io, notices, last>>

\* f.read() and the isinstance chain, or destination.write(txt).
Transfer(t) ==
    /\ calls[t].pc = "opened"
    /\ LET c == calls[t]
           d == DecodeLoaded(store[c.target])
       IN  IF c.op = "read_text"
           THEN /\ calls' = [calls EXCEPT ![t] = [@ EXCEPT !.pc = "closing",
                                !.outcome = d.outcome, !.result = d.result]]
                /\ UNCHANGED store
           ELSE /\ calls' = [calls EXCEPT ![t] = [@ EXCEPT !.pc = "closing",
                                                          !.outcome = "ok"]]
                /\ store' = [store EXCEPT ![c.target] = Stored(c.target, ConcText)]
    /\ UNCHANGED <<default_io, open_handles, notices, last>>

\* __exit__ of the with block.
Close(t) ==
    /\ calls[t].pc = "closing"
    /\ calls' = [calls EXCEPT ![t] = [@ EXCEPT !.pc = "done"]]
    /\ open_handles' = open_handles - WithExit(calls[t].outcome # "ok")
    /\ UNCHANGED <<default_io, store, notices, last>>

Return(t) ==
    /\ calls[t].pc = "done"
    /\ calls' = [calls EXCEPT ![t] = Idle]
    /\ UNCHANGED <<default_io, store, open_handles, notices, last>>

\* use_fsspec() on any thread: one assignment of the class attribute.
Install ==
    /\ default_io' = SetDefault(default_io)
    /\ UNCHANGED <<store, open_handles, notices, last, calls>>

NextConc ==
    \/ \E t \in Threads : Begin(t)
    \/ \E t \in Threads : Bind(t)
    \/ \E t \in Threads : Enter(t)
    \/ \E t \in Threads : Open(t)
    \/ \E t \in Threads : Transfer(t)
    \/ \E t \in Threads : Close(t)
    \/ \E t \in Threads : Return(t)
    \/ Install

SpecConc == InitConc /\ [][NextConc]_vars

(* ------------------------------- claims --------------------------------- *)
WriteOps == {"write_text", "write_text_to_href", "write_text_from_href"}
SeqsUpTo(S, n) == UNION {[1..k -> S] : k \in 0..n}
\* The texts a byte sequence is the UTF-8 encoding of (stated through the
\* encoder; byte payloads of the model encode code points 65 and 233 only).
TextsEncodedAs(b) == {t \in SeqsUpTo({65, 233}, Len(b)) : Utf8Encode(t) = b}

\* C1: write_text(H, T) without a backend fault completes without error under
\* every default strategy, and a following read_text(H) without modifier or
\* fault returns exactly T.
RoundTrip ==
    [][/\ (last'.op = "write_text" /\ last'.fault = "none") => last'.outcome = "ok"
       /\ (/\ last.op = "write_text" /\ last.fault = "none"
           /\ last'.op = "read_text" /\ last'.fault = "none"
           /\ last'.modifier = NoModifier /\ last'.href = last.href)
          => (last'.outcome = "ok" /\ last'.result = Str(last.txt))]_vars

\* C2: read_text(H, read_href_modifier=M) invokes M exactly once, on H; when M
\* returns, the one strategy read and every backend open are at M(H), and a
\* successful call returns the content held at M(H); no write invokes a modifier.
ModifierApplication ==
    /\ (last.op = "read_text" /\ last.modifier # NoModifier) =>
        /\ last.mod_calls = <<last.href>>
        /\ Modify(last.modifier, last.href) # Raises =>
            /\ Len(last.scalls) = 1
            /\ last.scalls[1].method = "read_text_from_href"
            /\ last.scalls[1].href = Modify(last.modifier, last.href)
            /\ \A i \in DOMAIN last.opens :
                   last.opens[i].href = Modify(last.modifier, last.href)
            /\ last.outcome = "ok" =>
                   LET p == store[Modify(last.modifier, last.href)]
                   IN  \/ p.kind = "str" /\ last.result = Str(p.val)
                       \/ p.kind = "bytes" /\ last.result.kind = "str"
                                           /\ last.result.val \in TextsEncodedAs(p.val)
    /\ last.op \in WriteOps => last.mod_calls = <<>>

ModifierApplicationWitness ==
    /\ last.op = "read_text" /\ last.modifier = "sign" /\ last.outcome = "ok"
    /\ last.href = "a" /\ store["a"] = Str(<<65>>)
    /\ last.result = Str(<<233, 65>>)

\* C3: without a modifier the strategy read receives the caller's options
\* unchanged; with a modifier it receives no options, whatever the caller passed.
OptionForwarding ==
    (last.op = "read_text" /\ Len(last.scalls) = 1) =>
        /\ last.modifier = NoModifier => last.scalls[1].options = last.options
        /\ last.modifier # NoModifier => last.scalls[1].options = NoOptions
        /\ \A i \in DOMAIN last.opens : last.opens[i].options = last.scalls[1].options

OptionForwardingWitness ==
    /\ last.op = "read_text" /\ last.modifier = "sign" /\ last.options = {"compression"}
    /\ Len(last.opens) = 1 /\ last.opens[1].options = NoOptions

\* C4: write_text(href, text, **options) calls write_text_to_href(href, text,
\* **options) on the strategy that is the default at call time, and returns
\* nothing on success, also under the initial default.
WriteDelegation ==
    last.op = "write_text" =>
        /\ last.scalls = <<SCall(last.default_before, "write_text_to_href", last.href,
                                 last.txt, last.options)>>
        /\ last.fault = "none" => (last.outcome = "ok" /\ last.result = None)

\* C5: a FsspecStacIO read whose backend read yields a non-text non-bytes object
\* or bytes that are not valid UTF-8 fails with DecodeError and returns no
\* value; one that yields a string or valid UTF-8 bytes succeeds with that text.
DecodeFailure ==
    (/\ Len(last.scalls) = 1 /\ last.scalls[1].strategy = "FsspecStacIO"
     /\ last.scalls[1].method = "read_text_from_href"
     /\ last.fault = "none" /\ store[last.scalls[1].href] # Missing) =>
        LET p == store[last.scalls[1].href]
        IN  IF p.kind = "other" \/ (p.kind = "bytes" /\ TextsEncodedAs(p.val) = {})
            THEN last.outcome = "DecodeError" /\ last.result = None
            ELSE /\ last.outcome = "ok"
                 /\ p.kind = "str" => last.result = p
                 /\ p.kind = "bytes" => last.result.val \in TextsEncodedAs(p.val)

DecodeFailureWitness ==
    /\ last.op = "read_text_from_href" /\ last.outcome = "DecodeError"
    /\ store[last.href] \in {Other, Bytes(<<195>>)}

\* C6: every handle a call opened is closed when the call exits, on every exit
\* path, and no handle is open between calls.
ResourceRelease ==
    /\ open_handles = 0
    /\ Len(last.opens) = last.closed

ResourceReleaseWitness ==
    /\ last.op \in {"read_text_from_href", "write_text_to_href"}
    /\ last.outcome \in {"BackendError", "DecodeError"}
    /\ Len(last.opens) = 1 /\ last.closed = 1

\* C7: use_fsspec() leaves FsspecStacIO installed and touches nothing else;
\* called again it changes no part of the state, so later calls cannot tell
\* one call from several.
InstallerIdempotent ==
    [][last'.op = "use_fsspec" =>
        /\ default_io' = "FsspecStacIO"
        /\ default_io = "FsspecStacIO" => default_io' = default_io
        /\ store' = store /\ open_handles' = open_handles /\ notices' = notices]_vars

InstallerIdempotentWitness ==
    last.op = "use_fsspec" /\ last.default_before = "FsspecStacIO"

\* C8: write_text_from_href(H, T, **options) on FsspecStacIO has the backend
\* effect, handle use and outcome of write_text_to_href(H, T, **options), and
\* differs only by first emitting the deprecation notice that names
\* write_text_to_href and v0.5.0.
AliasEquivalence ==
    [][last'.op = "write_text_from_href" =>
        \E cut \in Cuts(last'.txt, last'.fault) :
            LET r == FsspecWriteTextToHref(store, last'.href, last'.txt, last'.options,
                                           last'.fault, cut)
            IN  /\ store' = r.store
                /\ last'.outcome = r.outcome /\ last'.result = r.result
                /\ last'.opens = r.opens /\ last'.closed = r.closed
                /\ Len(last'.emitted) = Len(r.emitted) + 1
                /\ last'.emitted[1].to = "FsspecStacIO.write_text_to_href"
                /\ last'.emitted[1].version = "v0.5.0"]_vars

AliasEquivalenceWitness ==
    /\ last.op = "write_text_from_href" /\ last.options = {"compression"}
    /\ last.outcome = "ok" /\ store[last.href] = Stored(last.href, Sample(MaxLen))

\* C9: the deprecation notice is emitted only by calls in which the caller
\* invoked write_text_from_href, and at most once over the whole run.
NoticeOnlyFromAlias ==
    /\ last.emitted # <<>> => last.op = "write_text_from_href"
    /\ notices <= 1

\* C10: a facade call in flight runs the method of the strategy that was the
\* default when the call started, whatever use_fsspec() does meanwhile, and
\* the default strategy is never unset.
CapturedStrategy ==
    /\ default_io \in Classes
    /\ \A t \in Threads :
        calls[t].dispatched # "none" => calls[t].dispatched = calls[t].start_default

CapturedStrategyWitness ==
    \E t \in Threads :
        /\ calls[t].pc = "opened" /\ calls[t].dispatched = "DefaultStacIO"
        /\ default_io = "FsspecStacIO"

====
